---- MODULE Spec2Model ----
(***************************************************************************)
(* Model of src/src/main.rs: the dungeon generator (make_map and its       *)
(* helpers), the collision resolver (is_blocked, move_by,                  *)
(* player_move_or_attack), the key handler and the render/FOV loop of      *)
(* main.                                                                   *)
(*                                                                         *)
(* Vectors are 0-based in the source and 1-based here: entity id i is      *)
(* objects[i + 1].  The tile grid map[x][y] is the function map[<<x, y>>]. *)
(***************************************************************************)
EXTENDS Integers, Sequences, FiniteSets, TLC

(***************************************************************************)
(* Sizes.  The source values are MAP_WIDTH 80, MAP_HEIGHT 45,              *)
(* ROOM_MIN_SIZE 6, ROOM_MAX_SIZE 10, MAX_ROOMS 30, MAX_ROOM_MONSTERS 3,   *)
(* TORCH_RADIUS 10; the model is explored on a scaled-down dungeon.        *)
(***************************************************************************)
MAP_WIDTH == 7
MAP_HEIGHT == 5
ROOM_MIN_SIZE == 2
ROOM_MAX_SIZE == 3
MAX_ROOMS == 3
MAX_ROOM_MONSTERS == 1
TORCH_RADIUS == 2

PLAYER == 0
FOV_LIGHT_WALLS == TRUE

VARIABLES
    pc,                         \* where main is: "make_map", "render", "keys", "exit"; "ops" in the call harness
    attempt,                    \* iterations of make_map's loop done so far
    map,                        \* game.map
    rooms,                      \* make_map's accepted rooms, in acceptance order
    tunnels,                    \* orientation drawn for the tunnel into each accepted room but the first
    objects,                    \* the entity registry
    fov_transparent,            \* tcod.fov: cells set transparent
    fov_visible,                \* tcod.fov: cells currently in the field of view
    fov_origin,                 \* tcod.fov: origin of the last compute_fov
    fov_recompute,              \* the flag main passed to the last render_all
    previous_player_position,
    key,                        \* the key read by the last handle_keys
    log,                        \* lines printed by the last loop iteration
    call                        \* the last call made by the call harness

vars == <<pc, attempt, map, rooms, tunnels, objects, fov_transparent, fov_visible,
          fov_origin, fov_recompute, previous_player_position, key, log, call>>

Cells == (0 .. MAP_WIDTH - 1) \X (0 .. MAP_HEIGHT - 1)

Min(a, b) == IF a < b THEN a ELSE b
Max(a, b) == IF a > b THEN a ELSE b
Abs(a) == IF a < 0 THEN -a ELSE a

(***************************************************************************)
(* Tile, Object, Rect                                                      *)
(***************************************************************************)
TileEmpty == [blocked |-> FALSE, explored |-> FALSE, block_sight |-> FALSE]
TileWall == [blocked |-> TRUE, explored |-> FALSE, block_sight |-> TRUE]

ObjectNew(x, y, char, name, color, blocks) ==
    [x |-> x, y |-> y, char |-> char, color |-> color, name |-> name,
     blocks |-> blocks, alive |-> FALSE]

Pos(object) == <<object.x, object.y>>

SetPos(objs, id, x, y) == [objs EXCEPT ![id + 1].x = x, ![id + 1].y = y]

RectNew(x, y, w, h) == [x1 |-> x, x2 |-> x + w, y1 |-> y, y2 |-> y + h]

Center(r) == <<(r.x1 + r.x2) \div 2, (r.y1 + r.y2) \div 2>>

\* Mutant: the bounds compared strictly, so rooms that touch do not intersect.
IntersectsWith_Strict(a, b) ==
    /\ a.x1 < b.x2
    /\ a.x2 > b.x1
    /\ a.y1 < b.y2
    /\ a.y2 > b.y1

IntersectsWith(a, b) ==
    /\ a.x1 <= b.x2
    /\ a.x2 >= b.x1
    /\ a.y1 <= b.y2
    /\ a.y2 >= b.y1

(***************************************************************************)
(* Collision resolver                                                      *)
(***************************************************************************)
\* Mutant: any entity blocks, whatever its blocks flag.
IsBlocked_AnyEntity(x, y, m, objs) ==
    IF m[<<x, y>>].blocked
    THEN TRUE
    ELSE \E i \in 1 .. Len(objs) : Pos(objs[i]) = <<x, y>>

IsBlocked(x, y, m, objs) ==
    IF m[<<x, y>>].blocked
    THEN TRUE
    ELSE \E i \in 1 .. Len(objs) : objs[i].blocks /\ Pos(objs[i]) = <<x, y>>

\* Mutant: the destination tested without the registry.
MoveBy_TileOnly(id, dx, dy, m, objs) ==
    LET x == objs[id + 1].x
        y == objs[id + 1].y
    IN IF ~m[<<x + dx, y + dy>>].blocked
       THEN SetPos(objs, id, x + dx, y + dy)
       ELSE objs

\* Mutant: the object moved without asking is_blocked.
MoveBy_Unchecked(id, dx, dy, m, objs) ==
    SetPos(objs, id, objs[id + 1].x + dx, objs[id + 1].y + dy)

MoveBy(id, dx, dy, m, objs) ==
    LET x == objs[id + 1].x
        y == objs[id + 1].y
    IN IF ~IsBlocked(x + dx, y + dy, m, objs)
       THEN SetPos(objs, id, x + dx, y + dy)
       ELSE objs

(***************************************************************************)
(* Carving                                                                 *)
(***************************************************************************)
\* Mutant: the room carved with its border.
CreateRoom_WithWalls(room, m) ==
    [c \in Cells |->
        IF /\ c[1] \in room.x1 .. room.x2
           /\ c[2] \in room.y1 .. room.y2
        THEN TileEmpty ELSE m[c]]

CreateRoom(room, m) ==
    [c \in Cells |->
        IF /\ c[1] \in (room.x1 + 1) .. (room.x2 - 1)
           /\ c[2] \in (room.y1 + 1) .. (room.y2 - 1)
        THEN TileEmpty ELSE m[c]]

CreateHTunnel(x1, x2, y, m) ==
    [c \in Cells |->
        IF c[2] = y /\ c[1] \in Min(x1, x2) .. Max(x1, x2)
        THEN TileEmpty ELSE m[c]]

CreateVTunnel(y1, y2, x, m) ==
    [c \in Cells |->
        IF c[1] = x /\ c[2] \in Min(y1, y2) .. Max(y1, y2)
        THEN TileEmpty ELSE m[c]]

(***************************************************************************)
(* place_objects.  draws is the sequence of random draws of the loop, one  *)
(* [x, y, orc] per monster: the spot and the outcome of the 80% roll.      *)
(***************************************************************************)
Orc(x, y) == [ObjectNew(x, y, "O", "orc", "DESATURATED_GREEN", TRUE) EXCEPT !.alive = TRUE]
Troll(x, y) == [ObjectNew(x, y, "T", "troll", "DARKER_GREEN", TRUE) EXCEPT !.alive = TRUE]

\* Mutant: every draw placed, whatever stands on its cell.
RECURSIVE PlaceObjects_NoCheck(_, _, _)
PlaceObjects_NoCheck(draws, m, objs) ==
    IF draws = <<>>
    THEN objs
    ELSE LET d == Head(draws)
         IN PlaceObjects_NoCheck(Tail(draws), m,
                Append(objs, IF d.orc THEN Orc(d.x, d.y) ELSE Troll(d.x, d.y)))

RECURSIVE PlaceObjects(_, _, _)
PlaceObjects(draws, m, objs) ==
    IF draws = <<>>
    THEN objs
    ELSE LET d == Head(draws)
             placed == IF ~IsBlocked(d.x, d.y, m, objs)
                       THEN Append(objs, IF d.orc THEN Orc(d.x, d.y) ELSE Troll(d.x, d.y))
                       ELSE objs
         IN PlaceObjects(Tail(draws), m, placed)

\* The draws place_objects can make in a room: num_monsters in 0 .. MAX_ROOM_MONSTERS,
\* each spot inside the room.
MonsterDraw(room) ==
    [x : (room.x1 + 1) .. (room.x2 - 1), y : (room.y1 + 1) .. (room.y2 - 1), orc : BOOLEAN]

MonsterDraws(room) ==
    UNION {[1 .. n -> MonsterDraw(room)] : n \in 0 .. MAX_ROOM_MONSTERS}

(***************************************************************************)
(* make_map: one iteration of the room loop on an accepted candidate.      *)
(* h_first is the outcome of rand::random() for the tunnel orientation.    *)
(***************************************************************************)
\* Mutant: the vertical segment of the horizontal-first tunnel carved in the
\* previous room's column.
Tunnel_SameColumn(prev, new, h_first, m) ==
    IF h_first
    THEN CreateVTunnel(prev[2], new[2], prev[1], CreateHTunnel(prev[1], new[1], prev[2], m))
    ELSE CreateHTunnel(prev[1], new[1], new[2], CreateVTunnel(prev[2], new[2], prev[1], m))

\* Mutant: the horizontal segment of the vertical-first tunnel carved in the previous
\* room's row.
Tunnel_SameRow(prev, new, h_first, m) ==
    IF h_first
    THEN CreateVTunnel(prev[2], new[2], new[1], CreateHTunnel(prev[1], new[1], prev[2], m))
    ELSE CreateHTunnel(prev[1], new[1], prev[2], CreateVTunnel(prev[2], new[2], prev[1], m))

Tunnel(prev, new, h_first, m) ==
    IF h_first
    THEN CreateVTunnel(prev[2], new[2], new[1], CreateHTunnel(prev[1], new[1], prev[2], m))
    ELSE CreateHTunnel(prev[1], new[1], new[2], CreateVTunnel(prev[2], new[2], prev[1], m))

Failed(new_room, rs) == \E i \in 1 .. Len(rs) : IntersectsWith(new_room, rs[i])

AcceptMap(new_room, h_first, m, rs) ==
    LET carved == CreateRoom(new_room, m)
    IN IF rs = <<>>
       THEN carved
       ELSE Tunnel(Center(rs[Len(rs)]), Center(new_room), h_first, carved)

\* Mutant: the player moved to the center of every accepted room.
AcceptObjects_EveryRoom(new_room, draws, m, rs, objs) ==
    LET placed == PlaceObjects(draws, CreateRoom(new_room, m), objs)
        c == Center(new_room)
    IN SetPos(placed, PLAYER, c[1], c[2])

\* Mutant: the player left where Object::new put it.
AcceptObjects_NoPlayer(new_room, draws, m, rs, objs) ==
    PlaceObjects(draws, CreateRoom(new_room, m), objs)

AcceptObjects(new_room, draws, m, rs, objs) ==
    LET placed == PlaceObjects(draws, CreateRoom(new_room, m), objs)
        c == Center(new_room)
    IN IF rs = <<>> THEN SetPos(placed, PLAYER, c[1], c[2]) ELSE placed

WallMap == [c \in Cells |-> TileWall]

\* The body of make_map's loop for the candidate new_room: g is the generator's
\* state [map, rooms, tunnels, objects].
MakeMapStep(g, new_room, draws, h_first) ==
    IF Failed(new_room, g.rooms)
    THEN g
    ELSE [map |-> AcceptMap(new_room, h_first, g.map, g.rooms),
          objects |-> AcceptObjects(new_room, draws, g.map, g.rooms, g.objects),
          tunnels |-> IF g.rooms = <<>> THEN g.tunnels ELSE Append(g.tunnels, h_first),
          rooms |-> Append(g.rooms, new_room)]

\* Mutant: the position drawn up to MAP_WIDTH - w and MAP_HEIGHT - h inclusive.
Candidates_Inclusive ==
    UNION {{RectNew(x, y, w, h) : x \in 0 .. (MAP_WIDTH - w), y \in 0 .. (MAP_HEIGHT - h)} :
              w \in ROOM_MIN_SIZE .. ROOM_MAX_SIZE, h \in ROOM_MIN_SIZE .. ROOM_MAX_SIZE}

\* The candidates make_map can draw: w, h in ROOM_MIN_SIZE ..= ROOM_MAX_SIZE,
\* x in 0 .. MAP_WIDTH - w (exclusive), y in 0 .. MAP_HEIGHT - h (exclusive).
Candidates ==
    UNION {{RectNew(x, y, w, h) : x \in 0 .. (MAP_WIDTH - w - 1), y \in 0 .. (MAP_HEIGHT - h - 1)} :
              w \in ROOM_MIN_SIZE .. ROOM_MAX_SIZE, h \in ROOM_MIN_SIZE .. ROOM_MAX_SIZE}

(***************************************************************************)
(* Field of view (tcod::map::Map).  compute_fov is the library's; it is    *)
(* modelled by its contract: a cell is in the field of view when it is     *)
(* within the radius of the origin and the cells of the line between the   *)
(* two are transparent; light_walls decides whether the opaque cell that   *)
(* ends a line is itself lit.                                              *)
(***************************************************************************)
Sign(a) == IF a < 0 THEN -1 ELSE IF a > 0 THEN 1 ELSE 0

RoundDiv(a, n) == Sign(a) * ((2 * Abs(a) + n) \div (2 * n))

LinePoint(o, c, i) ==
    LET n == Max(Abs(c[1] - o[1]), Abs(c[2] - o[2]))
    IN <<o[1] + RoundDiv(i * (c[1] - o[1]), n), o[2] + RoundDiv(i * (c[2] - o[2]), n)>>

LineOfSight(o, c, transparent) ==
    LET n == Max(Abs(c[1] - o[1]), Abs(c[2] - o[2]))
    IN \A i \in 1 .. (n - 1) : LinePoint(o, c, i) \in transparent

ComputeFov(o, radius, light_walls, transparent) ==
    {c \in Cells :
        /\ (c[1] - o[1]) * (c[1] - o[1]) + (c[2] - o[2]) * (c[2] - o[2]) <= radius * radius
        /\ LineOfSight(o, c, transparent)
        /\ (c = o \/ c \in transparent \/ light_walls)}

\* main's loop that copies the map into the FOV map.
PopulateFov(m) == {c \in Cells : ~m[c].block_sight}

(***************************************************************************)
(* render_all: the FOV recomputation and the explored flags.  The colours  *)
(* go to the console, which is not modelled.                               *)
(***************************************************************************)
RenderFov(recompute, objs, transparent, visible) ==
    IF recompute
    THEN ComputeFov(Pos(objs[PLAYER + 1]), TORCH_RADIUS, FOV_LIGHT_WALLS, transparent)
    ELSE visible

\* Mutant: the explored flag follows the visible flag.
RenderMap_Reset(m, visible) == [c \in Cells |-> [m[c] EXCEPT !.explored = (c \in visible)]]

\* Mutant: a visible tile is explored only when it does not block sight.
RenderMap_FloorOnly(m, visible) ==
    [c \in Cells |->
        IF c \in visible /\ ~m[c].block_sight THEN [m[c] EXCEPT !.explored = TRUE] ELSE m[c]]

\* Mutant: a visible tile is redrawn as an explored floor tile.
RenderMap_Overwrite(m, visible) ==
    [c \in Cells |-> IF c \in visible THEN [TileEmpty EXCEPT !.explored = TRUE] ELSE m[c]]

RenderMap(m, visible) ==
    [c \in Cells |-> IF c \in visible THEN [m[c] EXCEPT !.explored = TRUE] ELSE m[c]]

(***************************************************************************)
(* player_move_or_attack and handle_keys                                   *)
(***************************************************************************)
\* Mutant: the last entity at (x, y) instead of the first.
Position_Last(x, y, objs) ==
    IF \E i \in 1 .. Len(objs) : Pos(objs[i]) = <<x, y>>
    THEN (CHOOSE i \in 1 .. Len(objs) :
            /\ Pos(objs[i]) = <<x, y>>
            /\ \A j \in (i + 1) .. Len(objs) : Pos(objs[j]) # <<x, y>>) - 1
    ELSE -1

\* objects.iter().position(..): the first index whose entity is at (x, y); -1 for None.
Position(x, y, objs) ==
    IF \E i \in 1 .. Len(objs) : Pos(objs[i]) = <<x, y>>
    THEN (CHOOSE i \in 1 .. Len(objs) :
            /\ Pos(objs[i]) = <<x, y>>
            /\ \A j \in 1 .. (i - 1) : Pos(objs[j]) # <<x, y>>) - 1
    ELSE -1

\* Mutant: the attacked entity turned into a corpse that no longer blocks.
PlayerMoveOrAttack_Kill(dx, dy, m, objs) ==
    LET x == objs[PLAYER + 1].x + dx
        y == objs[PLAYER + 1].y + dy
        target_id == Position(x, y, objs)
    IN IF target_id # -1
       THEN [objects |-> [objs EXCEPT ![target_id + 1].blocks = FALSE,
                                      ![target_id + 1].char = "%"],
             log |-> <<<<"laughs", objs[target_id + 1].name>>>>]
       ELSE [objects |-> MoveBy(PLAYER, dx, dy, m, objs), log |-> <<>>]

PlayerMoveOrAttack(dx, dy, m, objs) ==
    LET x == objs[PLAYER + 1].x + dx
        y == objs[PLAYER + 1].y + dy
        target_id == Position(x, y, objs)
    IN IF target_id # -1
       THEN [objects |-> objs, log |-> <<<<"laughs", objs[target_id + 1].name>>>>]
       ELSE [objects |-> MoveBy(PLAYER, dx, dy, m, objs), log |-> <<>>]

Keys == {"Up", "Down", "Left", "Right", "Escape", "AltEnter", "Other"}

Dir(k) ==
    CASE k = "Up" -> <<0, -1>>
      [] k = "Down" -> <<0, 1>>
      [] k = "Left" -> <<-1, 0>>
      [] k = "Right" -> <<1, 0>>

Moves == {"Up", "Down", "Left", "Right"}

\* handle_keys: [action, objects, log].  Alt+Enter toggles the window's fullscreen
\* mode, which is the toolkit's state.
HandleKeys(k, m, objs) ==
    LET player_alive == objs[PLAYER + 1].alive
    IN CASE k = "AltEnter" -> [action |-> "DidntTakeTurn", objects |-> objs, log |-> <<>>]
         [] k = "Escape" -> [action |-> "Exit", objects |-> objs, log |-> <<>>]
         [] k \in Moves /\ player_alive ->
              LET r == PlayerMoveOrAttack(Dir(k)[1], Dir(k)[2], m, objs)
              IN [action |-> "TookTurn", objects |-> r.objects, log |-> r.log]
         [] OTHER -> [action |-> "DidntTakeTurn", objects |-> objs, log |-> <<>>]

\* main's monsters pass: one line per object that is not the player.
RECURSIVE Growls(_, _)
Growls(objs, i) ==
    IF i > Len(objs)
    THEN <<>>
    ELSE (IF i # PLAYER + 1 THEN <<<<"growls", objs[i].name>>>> ELSE <<>>) \o Growls(objs, i + 1)

(***************************************************************************)
(* main                                                                    *)
(***************************************************************************)
NoCall == [op |-> "none"]

Player0 == ObjectNew(0, 0, "@", "player", "WHITE", TRUE)

Init ==
    /\ pc = "make_map"
    /\ attempt = 0
    /\ map = WallMap
    /\ rooms = <<>>
    /\ tunnels = <<>>
    /\ objects = <<Player0>>
    /\ fov_transparent = {}
    /\ fov_visible = {}
    /\ fov_origin = <<-1, -1>>
    /\ fov_recompute = FALSE
    /\ previous_player_position = <<-1, -1>>
    /\ key = "none"
    /\ log = <<>>
    /\ call = NoCall

\* One iteration of make_map's loop.
\* Mutant: a rejected candidate does not use up an iteration.
NextAttempt_Retry(a, failed) == IF failed THEN a ELSE a + 1

\* `for _ in 0..MAX_ROOMS`: the loop counter after an iteration, whatever its outcome.
NextAttempt(a, failed) == a + 1

MakeMapAttempt ==
    /\ pc = "make_map"
    /\ attempt < MAX_ROOMS
    /\ \E new_room \in Candidates :
          LET g == [map |-> map, rooms |-> rooms, tunnels |-> tunnels, objects |-> objects]
          IN /\ IF Failed(new_room, rooms)
                THEN UNCHANGED <<map, rooms, tunnels, objects>>
                ELSE \E draws \in MonsterDraws(new_room), h_first \in BOOLEAN :
                        LET g2 == MakeMapStep(g, new_room, draws, h_first)
                        IN /\ map' = g2.map
                           /\ rooms' = g2.rooms
                           /\ tunnels' = g2.tunnels
                           /\ objects' = g2.objects
             /\ attempt' = NextAttempt(attempt, Failed(new_room, rooms))
    /\ UNCHANGED <<pc, fov_transparent, fov_visible, fov_origin, fov_recompute,
                   previous_player_position, key, log, call>>

\* make_map returns; main fills the FOV map and enters its loop.
MakeMapReturn ==
    /\ pc = "make_map"
    /\ attempt = MAX_ROOMS
    /\ fov_transparent' = PopulateFov(map)
    /\ previous_player_position' = <<-1, -1>>
    /\ pc' = "render"
    /\ UNCHANGED <<attempt, map, rooms, tunnels, objects, fov_visible, fov_origin,
                   fov_recompute, key, log, call>>

\* Mutant: the field of view recomputed on every frame.
FovRecompute_Always(prev, objs) == TRUE

\* main's fov_recompute flag.
FovRecompute(prev, objs) == prev # Pos(objs[PLAYER + 1])

\* The head of the loop: the frame is rendered and the player's position remembered.
Render ==
    /\ pc = "render"
    /\ LET recompute == FovRecompute(previous_player_position, objects)
           visible == RenderFov(recompute, objects, fov_transparent, fov_visible)
       IN /\ fov_recompute' = recompute
          /\ fov_visible' = visible
          /\ fov_origin' = IF recompute THEN Pos(objects[PLAYER + 1]) ELSE fov_origin
          /\ map' = RenderMap(map, visible)
    /\ previous_player_position' = Pos(objects[PLAYER + 1])
    /\ key' = "none"
    /\ log' = <<>>
    /\ pc' = "keys"
    /\ UNCHANGED <<attempt, rooms, tunnels, objects, fov_transparent, call>>

\* handle_keys and the rest of the iteration: the exit and the monsters pass.
Turn ==
    /\ pc = "keys"
    /\ \E k \in Keys :
          LET r == HandleKeys(k, map, objects)
          IN /\ key' = k
             /\ objects' = r.objects
             /\ pc' = IF r.action = "Exit" THEN "exit" ELSE "render"
             /\ log' = IF /\ r.action # "Exit"
                          /\ r.objects[PLAYER + 1].alive
                          /\ r.action # "DidntTakeTurn"
                       THEN r.log \o Growls(r.objects, 1)
                       ELSE r.log
    /\ UNCHANGED <<attempt, map, rooms, tunnels, fov_transparent, fov_visible, fov_origin,
                   fov_recompute, previous_player_position, call>>

\* tcod.root.window_closed() ends the loop.
WindowClosed ==
    /\ pc = "render"
    /\ pc' = "exit"
    /\ UNCHANGED <<attempt, map, rooms, tunnels, objects, fov_transparent, fov_visible,
                   fov_origin, fov_recompute, previous_player_position, key, log, call>>

Next ==
    \/ MakeMapAttempt
    \/ MakeMapReturn
    \/ Render
    \/ Turn
    \/ WindowClosed

Spec == Init /\ [][Next]_vars

\* make_map alone, from its call to its return.  The loop body and the return are
\* sequential code, which runs whenever it can.
NextGen ==
    \/ MakeMapAttempt
    \/ MakeMapReturn

SpecGen == Init /\ [][NextGen]_vars /\ WF_vars(MakeMapAttempt) /\ WF_vars(MakeMapReturn)

(***************************************************************************)
(* Sessions on seeded dungeons.  The dungeon is the one make_map returns   *)
(* when its first draw is a room in the top-left corner, its second a room *)
(* in the bottom-right corner and every later draw repeats the first (and  *)
(* is rejected), and each room gets at most one monster, an orc.           *)
(* handle_keys reads objects[PLAYER].alive, which main leaves as           *)
(* Object::new set it; here it is drawn from BOOLEAN, so the session is    *)
(* explored with handle_keys on both of its inputs.                        *)
(***************************************************************************)
SeedFirst == {r \in Candidates : r.x1 = 0 /\ r.y1 = 0}
SeedSecond == {r \in Candidates : r.x2 = MAP_WIDTH - 1 /\ r.y2 = MAP_HEIGHT - 1}
SeedDraws(r) == {d \in MonsterDraws(r) : Len(d) <= 1 /\ \A i \in 1 .. Len(d) : d[i].orc}

InitPlay ==
    /\ pc = "make_map"
    /\ attempt = MAX_ROOMS
    /\ \E r1 \in SeedFirst, r2 \in SeedSecond, h_first \in BOOLEAN, a \in BOOLEAN :
         \E d1 \in SeedDraws(r1), d2 \in SeedDraws(r2) :
            LET g0 == [map |-> WallMap, rooms |-> <<>>, tunnels |-> <<>>, objects |-> <<Player0>>]
                g == MakeMapStep(MakeMapStep(g0, r1, d1, TRUE), r2, d2, h_first)
            IN /\ map = g.map
               /\ rooms = g.rooms
               /\ tunnels = g.tunnels
               /\ objects = [g.objects EXCEPT ![PLAYER + 1].alive = a]
    /\ fov_transparent = {}
    /\ fov_visible = {}
    /\ fov_origin = <<-1, -1>>
    /\ fov_recompute = FALSE
    /\ previous_player_position = <<-1, -1>>
    /\ key = "none"
    /\ log = <<>>
    /\ call = NoCall

NextPlay ==
    \/ MakeMapReturn
    \/ Render
    \/ Turn
    \/ WindowClosed

SpecPlay == InitPlay /\ [][NextPlay]_vars

(***************************************************************************)
(* Call harness for the collision resolver: is_blocked, move_by and        *)
(* player_move_or_attack called once, directly.  The map is the one make_map     *)
(* has after accepting the largest room in the top-left corner; the        *)
(* registry is the player and two more entities, blocking or not, each     *)
(* anywhere in the room or on the wall tile (0, 0), where Object::new puts *)
(* the player.  Coordinates outside the grid index out of range and are    *)
(* not passed.                                                             *)
(***************************************************************************)
OpsRoom == RectNew(0, 0, ROOM_MAX_SIZE, ROOM_MAX_SIZE)
OpsCells ==
    (((OpsRoom.x1 + 1) .. (OpsRoom.x2 - 1)) \X ((OpsRoom.y1 + 1) .. (OpsRoom.y2 - 1)))
        \cup {<<0, 0>>}

InitOps ==
    /\ pc = "ops"
    /\ attempt = 0
    /\ map = CreateRoom(OpsRoom, WallMap)
    /\ rooms = <<OpsRoom>>
    /\ tunnels = <<>>
    /\ \E p0 \in OpsCells, p1 \in OpsCells, p2 \in OpsCells, b1 \in BOOLEAN, b2 \in BOOLEAN :
          objects = <<ObjectNew(p0[1], p0[2], "@", "player", "WHITE", TRUE),
                      ObjectNew(p1[1], p1[2], "O", "orc", "DESATURATED_GREEN", b1),
                      ObjectNew(p2[1], p2[2], "T", "troll", "DARKER_GREEN", b2)>>
    /\ fov_transparent = {}
    /\ fov_visible = {}
    /\ fov_origin = <<-1, -1>>
    /\ fov_recompute = FALSE
    /\ previous_player_position = <<-1, -1>>
    /\ key = "none"
    /\ log = <<>>
    /\ call = NoCall

OpsFrame ==
    /\ pc' = "done"
    /\ UNCHANGED <<attempt, map, rooms, tunnels, fov_transparent, fov_visible,
                        fov_origin, fov_recompute, previous_player_position, key>>

OpIsBlocked ==
    /\ pc = "ops"
    /\ \E c \in Cells :
          call' = [op |-> "is_blocked", x |-> c[1], y |-> c[2],
                   ret |-> IsBlocked(c[1], c[2], map, objects)]
    /\ UNCHANGED <<objects, log>>
    /\ OpsFrame

OpMoveBy ==
    /\ pc = "ops"
    /\ \E id \in 0 .. (Len(objects) - 1), dx \in -1 .. 1, dy \in -1 .. 1 :
          /\ <<objects[id + 1].x + dx, objects[id + 1].y + dy>> \in Cells
          /\ call' = [op |-> "move_by", id |-> id, dx |-> dx, dy |-> dy]
          /\ objects' = MoveBy(id, dx, dy, map, objects)
    /\ UNCHANGED log
    /\ OpsFrame

OpPlayerMoveOrAttack ==
    /\ pc = "ops"
    /\ \E k \in Moves :
          LET r == PlayerMoveOrAttack(Dir(k)[1], Dir(k)[2], map, objects)
          IN /\ <<objects[PLAYER + 1].x + Dir(k)[1], objects[PLAYER + 1].y + Dir(k)[2]>> \in Cells
             /\ call' = [op |-> "player_move_or_attack", dx |-> Dir(k)[1], dy |-> Dir(k)[2]]
             /\ objects' = r.objects
             /\ log' = r.log
    /\ OpsFrame

NextOps ==
    \/ OpIsBlocked
    \/ OpMoveBy
    \/ OpPlayerMoveOrAttack

SpecOps == InitOps /\ [][NextOps]_vars

(***************************************************************************)
(* One call of place_objects, or of the body of make_map's loop, on the    *)
(* harness map, whose room already holds the player and one other entity,  *)
(* blocking or not.                                                        *)
(***************************************************************************)
InitPlace ==
    /\ pc = "ops"
    /\ attempt = 0
    /\ map = CreateRoom(OpsRoom, WallMap)
    /\ rooms = <<OpsRoom>>
    /\ tunnels = <<>>
    /\ \E p0 \in OpsCells \ {<<0, 0>>}, p1 \in OpsCells \ {<<0, 0>>}, b1 \in BOOLEAN :
          objects = <<ObjectNew(p0[1], p0[2], "@", "player", "WHITE", TRUE),
                      ObjectNew(p1[1], p1[2], "O", "orc", "DESATURATED_GREEN", b1)>>
    /\ fov_transparent = {}
    /\ fov_visible = {}
    /\ fov_origin = <<-1, -1>>
    /\ fov_recompute = FALSE
    /\ previous_player_position = <<-1, -1>>
    /\ key = "none"
    /\ log = <<>>
    /\ call = NoCall

\* place_objects called on the room of the harness map.
OpPlaceObjects ==
    /\ pc = "ops"
    /\ \E draws \in MonsterDraws(OpsRoom) :
          /\ call' = [op |-> "place_objects", room |-> OpsRoom, draws |-> draws]
          /\ objects' = PlaceObjects(draws, map, objects)
    /\ UNCHANGED log
    /\ OpsFrame

\* The body of make_map's loop run once more on the harness map.
OpMakeMapStep ==
    /\ pc = "ops"
    /\ \E new_room \in Candidates, h_first \in BOOLEAN : \E draws \in MonsterDraws(new_room) :
          LET g == [map |-> map, rooms |-> rooms, tunnels |-> tunnels, objects |-> objects]
              g2 == MakeMapStep(g, new_room, draws, h_first)
          IN /\ call' = [op |-> "make_map", new_room |-> new_room,
                         draws |-> IF Failed(new_room, rooms) THEN <<>> ELSE draws]
             /\ map' = g2.map
             /\ rooms' = g2.rooms
             /\ tunnels' = g2.tunnels
             /\ objects' = g2.objects
    /\ pc' = "done"
    /\ UNCHANGED <<attempt, fov_transparent, fov_visible, fov_origin, fov_recompute,
                   previous_player_position, key, log>>

NextPlace ==
    \/ OpPlaceObjects
    \/ OpMakeMapStep

SpecPlace == InitPlace /\ [][NextPlace]_vars
(***************************************************************************)
(* Properties                                                              *)
(***************************************************************************)
Generated == attempt = MAX_ROOMS
PlayerPos == Pos(objects[PLAYER + 1])

\* C1: after every room attempt of make_map, no two accepted rooms intersect under
\* the inclusive test: never x1 <= x2' and x2 >= x1' and y1 <= y2' and y2 >= y1'.
C1_RoomsDisjoint ==
    \A i \in 1 .. Len(rooms), j \in 1 .. Len(rooms) :
        i # j =>
            ~(/\ rooms[i].x1 <= rooms[j].x2
              /\ rooms[i].x2 >= rooms[j].x1
              /\ rooms[i].y1 <= rooms[j].y2
              /\ rooms[i].y2 >= rooms[j].y1)

\* Two rooms were accepted and a later candidate was rejected.
C1_Witness == pc = "make_map" /\ Len(rooms) = 2 /\ attempt > Len(rooms)

\* C2: while make_map runs and when it returns, once a room is accepted the player
\* is at ((x1 + x2) / 2, (y1 + y2) / 2) of the first accepted room.
C2_PlayerAtFirstCenter ==
    (pc = "make_map" /\ rooms # <<>>) =>
        PlayerPos = <<(rooms[1].x1 + rooms[1].x2) \div 2, (rooms[1].y1 + rooms[1].y2) \div 2>>

\* make_map returns with a second room accepted, a tunnel carved and a monster placed.
C2_Witness == pc = "make_map" /\ Generated /\ Len(rooms) = 2 /\ Len(objects) > 1

\* The cells of the L between two centers, in the orientation drawn.
LCells(prev, new, h_first) ==
    IF h_first
    THEN {<<x, prev[2]>> : x \in Min(prev[1], new[1]) .. Max(prev[1], new[1])}
            \cup {<<new[1], y>> : y \in Min(prev[2], new[2]) .. Max(prev[2], new[2])}
    ELSE {<<prev[1], y>> : y \in Min(prev[2], new[2]) .. Max(prev[2], new[2])}
            \cup {<<x, new[2]>> : x \in Min(prev[1], new[1]) .. Max(prev[1], new[1])}

Adjacent(a, b) == Abs(a[1] - b[1]) + Abs(a[2] - b[2]) = 1

\* The cells of S reachable from R by steps between 4-adjacent cells of S.
RECURSIVE Grow(_, _)
Grow(R, S) ==
    LET R2 == R \cup {c \in S : \E r \in R : Adjacent(c, r)}
    IN IF R2 = R THEN R ELSE Grow(R2, S)

Floor == {c \in Cells : ~map[c].blocked}

TileBlockedAt(c) == map[c].blocked
BlockerAt(c) == \E i \in 1 .. Len(objects) : objects[i].blocks /\ Pos(objects[i]) = c
EntityAt(c) == \E i \in 1 .. Len(objects) : Pos(objects[i]) = c

\* Entity i of objs stands on a non-blocked tile that holds no other blocking entity.
StandsFree(objs, i) ==
    /\ ~map[Pos(objs[i])].blocked
    /\ \A j \in 1 .. Len(objs) : j # i => ~(objs[j].blocks /\ Pos(objs[j]) = Pos(objs[i]))

\* C4: a call move_by(id, dx, dy) whose destination tile is blocked or holds a blocking
\* entity changes nothing; any other call puts the entity exactly at (x + dx, y + dy)
\* and moves no other entity; and an entity that stood on a non-blocked tile with no
\* other blocking entity still does after the call.
C4_MoveBy ==
    [][(pc = "ops" /\ call'.op = "move_by") =>
          LET id == call'.id
              dest == <<objects[id + 1].x + call'.dx, objects[id + 1].y + call'.dy>>
          IN /\ IF TileBlockedAt(dest) \/ BlockerAt(dest)
                THEN objects' = objects
                ELSE /\ Pos(objects'[id + 1]) = dest
                     /\ \A i \in 1 .. Len(objects) : i # id + 1 => objects'[i] = objects[i]
                     /\ Len(objects') = Len(objects)
             /\ StandsFree(objects, id + 1) => StandsFree(objects', id + 1)]_vars

\* An entity in the room, next to a wall, was asked to step onto it, and stayed.
C4_Witness ==
    /\ call.op = "move_by"
    /\ call.dx # 0
    /\ ~map[Pos(objects[call.id + 1])].blocked
    /\ map[<<objects[call.id + 1].x + call.dx, objects[call.id + 1].y + call.dy>>].blocked

\* C5: is_blocked(x, y) is true exactly when the tile is blocked or an entity with
\* blocks = true is at (x, y).
C5_IsBlocked ==
    call.op = "is_blocked" =>
        (call.ret <=> (TileBlockedAt(<<call.x, call.y>>) \/ BlockerAt(<<call.x, call.y>>)))

\* is_blocked answered false for a floor cell that holds a non-blocking entity, while
\* another non-blocking entity stands on a blocked tile.
C5_Witness ==
    /\ call.op = "is_blocked"
    /\ ~call.ret
    /\ EntityAt(<<call.x, call.y>>)
    /\ \E i \in 1 .. Len(objects) : ~objects[i].blocks /\ map[Pos(objects[i])].blocked

\* C6: player_move_or_attack towards a cell that holds an entity prints the line
\* naming the first entity there in registry order and moves nothing; towards a cell
\* that holds none it prints nothing and does what move_by does.
C6_MoveOrAttack ==
    [][(pc = "ops" /\ call'.op = "player_move_or_attack") =>
          LET dest == <<PlayerPos[1] + call'.dx, PlayerPos[2] + call'.dy>>
              first == CHOOSE i \in 1 .. Len(objects) :
                          /\ Pos(objects[i]) = dest
                          /\ \A j \in 1 .. (i - 1) : Pos(objects[j]) # dest
          IN IF EntityAt(dest)
             THEN /\ objects' = objects
                  /\ log' = <<<<"laughs", objects[first].name>>>>
             ELSE /\ log' = <<>>
                  /\ objects' = MoveBy(PLAYER, call'.dx, call'.dy, map, objects)]_vars

\* The player attacked a cell that holds both other entities, the first of them
\* non-blocking.
C6_Witness ==
    /\ call.op = "player_move_or_attack"
    /\ log # <<>>
    /\ Pos(objects[2]) = Pos(objects[3])
    /\ Pos(objects[2]) = <<PlayerPos[1] + call.dx, PlayerPos[2] + call.dy>>
    /\ ~objects[2].blocks

\* C7: every movement key read by handle_keys is resolved before the next is read:
\* towards a cell holding an entity the line is printed and the player stays, towards
\* a blocked tile the player stays, towards a free cell the player moves there.
C7_IntentResolved ==
    [][(pc = "keys" /\ key' \in Moves) =>
          LET dest == <<PlayerPos[1] + Dir(key')[1], PlayerPos[2] + Dir(key')[2]>>
          IN IF EntityAt(dest)
             THEN /\ Pos(objects'[PLAYER + 1]) = PlayerPos
                  /\ \E i \in 1 .. Len(log') : log'[i][1] = "laughs"
             ELSE IF TileBlockedAt(dest)
                  THEN Pos(objects'[PLAYER + 1]) = PlayerPos
                  ELSE Pos(objects'[PLAYER + 1]) = dest]_vars

\* C8: a tile that is explored stays explored in every later state.
C8_ExploredMonotonic ==
    [][\A c \in Cells : map[c].explored => map'[c].explored]_vars

\* The player has moved and a frame was rendered: some tile is explored and no
\* longer in the field of view.
C8_Witness ==
    /\ pc = "keys"
    /\ fov_origin # Center(rooms[1])
    /\ \E c \in Cells : map[c].explored /\ c \notin fov_visible

\* C9: every cell in the field of view is explored.
C9_VisibleExplored == \A c \in fov_visible : map[c].explored

\* A frame was rendered after the player moved, with walls in the field of view.
C9_Witness ==
    /\ pc = "keys"
    /\ fov_recompute
    /\ PlayerPos # Center(rooms[1])
    /\ \E c \in fov_visible : map[c].block_sight

\* C10: a frame recomputes the field of view exactly when the player is not where
\* the last recomputation was made from (never, before the first frame), so after
\* each frame the field of view is the one of the player's position.
C10_RecomputeIffMoved ==
    [][(pc = "render" /\ pc' = "keys") =>
          /\ fov_recompute' <=> (PlayerPos # fov_origin)
          /\ fov_origin' = PlayerPos
          /\ fov_visible' = ComputeFov(PlayerPos, TORCH_RADIUS, FOV_LIGHT_WALLS, fov_transparent)]_vars

\* A frame rendered without recomputation, after a turn in which the player, who
\* had moved before, did not move.
C10_Witness ==
    /\ pc = "keys"
    /\ ~fov_recompute
    /\ objects[PLAYER + 1].alive
    /\ PlayerPos # Center(rooms[1])

\* C11: once make_map has returned, no step changes the blocked or block_sight flag of
\* a tile, and the explored flag changes only in the step that renders a frame.
C11_TilesFixedAfterGeneration ==
    [][(pc # "make_map" \/ Generated) =>
          \A c \in Cells :
             /\ map'[c].blocked = map[c].blocked
             /\ map'[c].block_sight = map[c].block_sight
             /\ map'[c].explored # map[c].explored => (pc = "render" /\ pc' = "keys")]_vars

\* A frame rendered after the live player moved: walls are explored and still walls.
C11_Witness ==
    /\ pc = "keys"
    /\ PlayerPos # Center(rooms[1])
    /\ \E c \in Cells : map[c].explored /\ map[c].blocked /\ map[c].block_sight

Interior(r) == ((r.x1 + 1) .. (r.x2 - 1)) \X ((r.y1 + 1) .. (r.y2 - 1))
Border == {c \in Cells : c[1] \in {0, MAP_WIDTH - 1} \/ c[2] \in {0, MAP_HEIGHT - 1}}

\* C12: every room make_map can draw has 0 <= x1, x2 <= MAP_WIDTH - 1 and
\* 0 <= y1, y2 <= MAP_HEIGHT - 1; every non-blocked tile has 1 <= x <= MAP_WIDTH - 2
\* and 1 <= y <= MAP_HEIGHT - 2, and every tile of the outermost rows and columns is
\* blocked.
C12_RoomsFitBorderStays ==
    /\ \A r \in Candidates :
          /\ 0 <= r.x1 /\ r.x1 <= MAP_WIDTH - 1 /\ 0 <= r.x2 /\ r.x2 <= MAP_WIDTH - 1
          /\ 0 <= r.y1 /\ r.y1 <= MAP_HEIGHT - 1 /\ 0 <= r.y2 /\ r.y2 <= MAP_HEIGHT - 1
    /\ \A i \in 1 .. Len(rooms) : rooms[i] \in Candidates
    /\ \A c \in Floor :
          /\ 1 <= c[1] /\ c[1] <= MAP_WIDTH - 2
          /\ 1 <= c[2] /\ c[2] <= MAP_HEIGHT - 2
    /\ \A c \in Border : map[c].blocked

\* make_map returns with a room against the right and bottom edges of the grid,
\* joined by a tunnel to an earlier room.
C12_Witness ==
    /\ pc = "make_map" /\ Generated
    /\ Len(rooms) = 2
    /\ rooms[2].x2 = MAP_WIDTH - 1
    /\ rooms[2].y2 = MAP_HEIGHT - 1

\* C13: the non-blocked tiles are exactly the interiors of the accepted rooms and the
\* cells of the L drawn between the centers of each consecutive pair of them.
C13_FloorIsRoomsAndTunnels ==
    Floor = UNION {Interior(rooms[i]) : i \in 1 .. Len(rooms)}
               \cup UNION {LCells(Center(rooms[i]), Center(rooms[i + 1]), tunnels[i]) :
                              i \in 1 .. (Len(rooms) - 1)}

\* make_map returns with two rooms, a tunnel that leaves both interiors, and a
\* candidate rejected.
C13_Witness ==
    /\ pc = "make_map" /\ Generated
    /\ Len(rooms) = 2 /\ attempt > 2
    /\ \E c \in Floor : c \notin Interior(rooms[1]) /\ c \notin Interior(rooms[2])

\* The cell a unit-step intent of the player asks is_blocked about.
Destination(k) == <<PlayerPos[1] + Dir(k)[1], PlayerPos[2] + Dir(k)[2]>>

\* C14: every spot place_objects can draw in a room make_map can draw is inside the
\* grid, every entity stands inside the grid, and after any sequence of unit-step
\* intents the destination of every next intent is inside the grid.
C14_AccessInBounds ==
    /\ \A r \in Candidates : \A d \in MonsterDraw(r) : <<d.x, d.y>> \in Cells
    /\ \A i \in 1 .. Len(objects) : Pos(objects[i]) \in Cells
    /\ \A k \in Moves : Destination(k) \in Cells

\* The live player has walked to a cell whose neighbour is on the edge of the grid.
C14_Witness ==
    /\ pc = "keys"
    /\ objects[PLAYER + 1].alive
    /\ PlayerPos # Center(rooms[1])
    /\ \E k \in Moves : Destination(k) \in Border

\* The draws of a call of place_objects that find their cell free: the tile is not
\* blocked, no blocking entity of objs stands there, and no earlier draw chose it.
Landed(draws, m, objs) ==
    {k \in 1 .. Len(draws) :
        /\ ~m[<<draws[k].x, draws[k].y>>].blocked
        /\ \A j \in 1 .. Len(objs) :
              ~(objs[j].blocks /\ Pos(objs[j]) = <<draws[k].x, draws[k].y>>)
        /\ \A j \in 1 .. (k - 1) :
              <<draws[j].x, draws[j].y>> # <<draws[k].x, draws[k].y>>}

\* What C15 says of the entities objs2 left by place_objects(room) run on objs with map
\* m2 and the given draws.
PlacedAsClaimed(room, draws, m2, objs, objs2) ==
    /\ Len(objs2) - Len(objs) \in 0 .. MAX_ROOM_MONSTERS
    /\ SubSeq(objs2, 1, Len(objs)) = objs
    /\ \A i \in (Len(objs) + 1) .. Len(objs2) :
          /\ room.x1 < objs2[i].x /\ objs2[i].x < room.x2
          /\ room.y1 < objs2[i].y /\ objs2[i].y < room.y2
          /\ ~m2[Pos(objs2[i])].blocked
          /\ \A j \in 1 .. (i - 1) : ~(objs2[j].blocks /\ Pos(objs2[j]) = Pos(objs2[i]))
    /\ Len(objs2) - Len(objs) = Cardinality(Landed(draws, m2, objs))
    /\ \A k \in Landed(draws, m2, objs) :
          \E i \in (Len(objs) + 1) .. Len(objs2) : Pos(objs2[i]) = <<draws[k].x, draws[k].y>>

\* C15: place_objects appends between 0 and MAX_ROOM_MONSTERS entities, each at an
\* interior cell of the room whose tile is not blocked and which held no blocking
\* entity when it was placed; a draw on a blocked or occupied cell is skipped and not
\* retried; an accepted room gets exactly that, and a rejected room adds no entity.
C15_PlaceObjects ==
    [][/\ (pc = "ops" /\ call'.op = "place_objects") =>
             PlacedAsClaimed(call'.room, call'.draws, map', objects, objects')
       /\ (pc = "ops" /\ call'.op = "make_map") =>
             IF \E i \in 1 .. Len(rooms) : IntersectsWith(call'.new_room, rooms[i])
             THEN objects' = objects /\ rooms' = rooms
             ELSE /\ rooms' = Append(rooms, call'.new_room)
                  /\ PlacedAsClaimed(call'.new_room, call'.draws, map', objects, objects')]_vars

\* place_objects drew a cell where a blocking entity stood, and appended nothing.
C15_Witness ==
    /\ call.op = "place_objects"
    /\ Len(call.draws) = MAX_ROOM_MONSTERS
    /\ Len(objects) = 2
    /\ \E j \in 1 .. Len(objects) :
          objects[j].blocks /\ Pos(objects[j]) = <<call.draws[1].x, call.draws[1].y>>

\* C16: during play no step changes the entity registry except, possibly, the x and y
\* of the player: its length and order stay, every other entity stays as it was, and
\* the player's other fields stay.
C16_RegistryStable ==
    [][pc # "make_map" =>
          /\ Len(objects') = Len(objects)
          /\ \A i \in 1 .. Len(objects) :
                i # PLAYER + 1 => objects'[i] = objects[i]
          /\ [objects'[PLAYER + 1] EXCEPT !.x = 0, !.y = 0]
                = [objects[PLAYER + 1] EXCEPT !.x = 0, !.y = 0]]_vars

\* The player walked away from where make_map put it and then attacked a monster.
C16_Witness ==
    /\ pc = "render"
    /\ key \in Moves
    /\ Len(objects) > 1
    /\ log # <<>> /\ log[1][1] = "laughs"
    /\ PlayerPos # Center(rooms[1])

\* C17: make_map returns, and only after exactly MAX_ROOMS iterations: every
\* iteration, a rejected candidate's included, advances the count by one, the accepted
\* rooms never outnumber the iterations made or MAX_ROOMS, and the loop is left.
C17_MakeMapTerminates ==
    /\ [](/\ Len(rooms) <= attempt
          /\ attempt <= MAX_ROOMS
          /\ pc # "make_map" => attempt = MAX_ROOMS)
    /\ [][pc' = "make_map" => attempt' = attempt + 1]_vars
    /\ <>(pc # "make_map")

\* make_map has returned after rejecting a candidate.
C17_Witness ==
    /\ pc = "render"
    /\ attempt = MAX_ROOMS
    /\ Len(rooms) < MAX_ROOMS

\* C18: from the return of make_map on, no two distinct entities with blocks = true
\* stand on the same cell; the player shares its cell with no monster.
C18_BlockersApart ==
    Generated =>
        \A i, j \in 1 .. Len(objects) :
            (i # j /\ objects[i].blocks /\ objects[j].blocks) => Pos(objects[i]) # Pos(objects[j])

C20_PlayerOnFloor ==
    /\ attempt >= 1 => Len(rooms) >= 1
    /\ Generated =>
          /\ PlayerPos \in Cells
          /\ ~map[PlayerPos].blocked

\* A session in which every candidate after the first was rejected, after a movement
\* key was read.
C20_Witness ==
    /\ pc = "render"
    /\ key \in Moves
    /\ Generated
    /\ Len(rooms) = 1
====
